---- MODULE Spec2Model ----
(***************************************************************************)
(* Model of plugins/dev-tools/src/block_test_helpers.mocha.js: the mocha   *)
(* callbacks built by runCodeGenerationTestSuites and                     *)
(* runSerializationTestSuite, and the setup/teardown hooks that stub the   *)
(* unique-ID function around each "xml round-trip" case.                   *)
(*                                                                         *)
(* The callbacks are translated statement by statement.  The libraries     *)
(* they call (mocha, sinon, chai, Blockly.Xml, the generators) and the     *)
(* runTestCases/runTestSuites helpers of common_test_helpers.mocha are     *)
(* not part of the file; they are modelled by their documented contract.   *)
(***************************************************************************)
EXTENDS Integers, Sequences, FiniteSets, TLC

(* ------------------------------ bounds -------------------------------- *)

\* Number of tests mocha runs, over all the groups.
MaxCases == 3
\* Number of code generation suites handed to runCodeGenerationTestSuites.
NumSuites == 2

(* --------------------------- JavaScript values ------------------------- *)

Undefined == [t |-> "undefined"]
Bool(b) == [t |-> "boolean", b |-> b]
Num(n) == [t |-> "number", n |-> n]
\* A string is the sequence of its characters (or, for XML text, tokens).
Str(s) == [t |-> "string", s |-> s]
\* A regular expression: a literal, anchored (/^lit$/) or not (/lit/).
RegExp(lit, anchored) == [t |-> "regexp", lit |-> lit, anchored |-> anchored]
\* The [code, order] pair a value block's generator returns.
Pair(code, order) == [t |-> "array", e0 |-> code, e1 |-> order]

\* ToBoolean: undefined, false, 0 and "" are falsy.
Truthy(v) ==
  CASE v.t = "undefined" -> FALSE
    [] v.t = "boolean" -> v.b
    [] v.t = "number" -> v.n # 0
    [] v.t = "string" -> v.s # <<>>
    [] OTHER -> TRUE

DigitOf(c) == CASE c = "0" -> 0 [] c = "1" -> 1 [] c = "5" -> 5 [] OTHER -> -1

\* ToNumber of a string of decimal digits ("" is 0); -1 stands for NaN.
RECURSIVE StrToNum(_)
StrToNum(s) ==
  IF s = <<>> THEN 0
  ELSE LET hd == StrToNum(SubSeq(s, 1, Len(s) - 1))
           d == DigitOf(s[Len(s)])
       IN IF hd < 0 \/ d < 0 THEN -1 ELSE 10 * hd + d

\* The == operator on the values above.
LooseEq(a, b) ==
  CASE a.t = b.t -> a = b
    [] a.t = "number" /\ b.t = "string" -> StrToNum(b.s) = a.n
    [] a.t = "string" /\ b.t = "number" -> StrToNum(a.s) = b.n
    [] OTHER -> FALSE

\* sub occurs in s as a contiguous substring.
IsSubstring(sub, s) ==
  \E i \in 0..(Len(s) - Len(sub)) : SubSeq(s, i + 1, i + Len(sub)) = sub

(* -------------------------------- chai --------------------------------- *)

\* assert.equal(actual, expected) passes iff actual == expected.
AssertEqual(actual, expected) == LooseEq(actual, expected)

\* assert.match(value, regexp) passes iff regexp.exec(value) finds a match;
\* with something that is no RegExp, exec is missing and the call throws.
AssertMatch(value, regexp) ==
  /\ regexp.t = "regexp"
  /\ value.t = "string"
  /\ IF regexp.anchored THEN value.s = regexp.lit
                        ELSE IsSubstring(regexp.lit, value.s)

(* ------------------------ Blockly builds and ids ----------------------- *)

\* The shapes of Blockly.utils across the 2021Q3 migration: before it
\* (utils.genUid only), with idGenerator but no TEST_ONLY yet, with both
\* genUid versions, and after the removal of utils.genUid.
Builds ==
  { [idGenerator |-> FALSE, testOnly |-> FALSE, utilsGenUid |-> TRUE],
    [idGenerator |-> TRUE, testOnly |-> FALSE, utilsGenUid |-> TRUE],
    [idGenerator |-> TRUE, testOnly |-> TRUE, utilsGenUid |-> TRUE],
    [idGenerator |-> TRUE, testOnly |-> TRUE, utilsGenUid |-> FALSE] }

\* What the stub installed by setup returns.
StubId == "1"
\* Ids the original genUid may produce (random, never the stub's constant).
RandomIds == {"r1", "r2"}

(* ----------------------------- Blockly.Xml ----------------------------- *)

BlockTypes == {"text"}
NoBlock == [type |-> "none", id |-> "none"]
NoDom == [type |-> "none", id |-> "none"]

\* XML text is a sequence of tokens:  ["xmlns"] type ["id" id].
\* textToDom: the parsed element, or NoDom when the text is malformed
\* (textToDom throws).
textToDom(text) ==
  LET body == IF text # <<>> /\ text[1] = "xmlns" THEN Tail(text) ELSE text
  IN IF Len(body) = 1 THEN [type |-> body[1], id |-> "none"]
     ELSE IF Len(body) = 3 /\ body[2] = "id" THEN [type |-> body[1], id |-> body[3]]
     ELSE NoDom

\* domToBlock on a fresh workspace with uid the value genUid() returns:
\* the block keeps the element's id when it has one, else takes a new one.
\* NoBlock when the block type is unknown (domToBlock throws).
domToBlock(dom, uid) ==
  IF dom = NoDom \/ dom.type \notin BlockTypes THEN NoBlock
  ELSE [type |-> dom.type, id |-> IF dom.id # "none" THEN dom.id ELSE uid]

blockToDom(b) == [type |-> b.type, id |-> b.id]

\* domToPrettyText: namespace first, then the type and the id attribute.
domToPrettyText(dom) == <<"xmlns", dom.type, "id", dom.id>>

(* -------------------------------- sinon -------------------------------- *)

TestOnlyGenUid == "idGenerator.TEST_ONLY.genUid"
UtilsGenUid == "utils.genUid"

\* The property exists on the build, so sinon.stub can wrap it.
Exists(build, prop) ==
  IF prop = TestOnlyGenUid THEN build.idGenerator /\ build.testOnly
  ELSE build.utilsGenUid

\* The unique-ID function a new block's constructor ends up calling:
\* idGenerator.genUid wraps TEST_ONLY.genUid where that exists.
UidProperty(build) ==
  IF build.idGenerator /\ build.testOnly THEN TestOnlyGenUid ELSE UtilsGenUid

\* The values genUid() may return while the stubs in installed are in place.
GenUid(build, installed) ==
  IF UidProperty(build) \in installed THEN {StubId} ELSE RandomIds

(* ------------------------------ test data ------------------------------ *)

RawNoId == <<"text">>
RawId7 == <<"text", "id", "7">>
PrettyId1 == <<"xmlns", "text", "id", "1">>
PrettyId7 == <<"xmlns", "text", "id", "7">>
Malformed == <<"text", "id">>
UnknownType == <<"math">>

\* SerializationTestCase: xml, expectedXml (string|undefined) and what
\* assertBlockStructure requires of the block.
SerializationCases ==
  [ xml : {Str(x) : x \in {RawNoId, RawId7, PrettyId1, PrettyId7, Malformed, UnknownType}},
    expectedXml : {Undefined, Str(<<>>), Str(PrettyId1), Str(PrettyId7)},
    structure : {"isText", "hasId7"} ]

\* testCase.assertBlockStructure(block) passes.
assertBlockStructure(tc, b) ==
  IF tc.structure = "isText" THEN b.type = "text" ELSE b.id = "7"

NoCase == [t |-> "none"]

(* -------------------------------- state -------------------------------- *)

VARIABLES
  env,          \* the Blockly build under test
  testSuites,   \* the suites given to runCodeGenerationTestSuites
  stubs,        \* properties sinon's default sandbox has wrapped
  hookError,    \* a setup hook threw
  group,        \* group of the current (or last) test
  pc,           \* position of the runner inside the current test
  testCase,     \* the case the current callback was created for
  generator,    \* the generator the current callback is bound to
  suite,        \* the suite the current code generation case belongs to
  ws,           \* this.workspace of the current test
  block,        \* const block
  returned,     \* what the generator call returned
  code,         \* let code
  innerOrder,   \* let innerOrder
  generatedXml, \* const generatedXml
  asserts,      \* chai assertions made by the current test, in order
  calls,        \* calls made by the current test on its collaborators
  outcome,      \* "none", "running", "pass" or "fail"
  ran,          \* number of tests run so far
  rtFailed      \* some round-trip case has failed

vars == <<env, testSuites, stubs, hookError, group, pc, testCase, generator,
          suite, ws, block, returned, code, innerOrder, generatedXml, asserts,
          calls, outcome, ran, rtFailed>>

locals == <<block, returned, code, innerOrder, generatedXml>>
config == <<env, testSuites>>

Generators == {"javascript", "python"}

Init ==
  /\ env \in Builds
  /\ testSuites \in [1..NumSuites -> [generator : Generators]]
  /\ stubs = {}
  /\ hookError = FALSE
  /\ group = "none"
  /\ pc = "idle"
  /\ testCase = NoCase
  /\ generator = "none"
  /\ suite = 0
  /\ ws = 0
  /\ block = NoBlock
  /\ returned = Undefined
  /\ code = Undefined
  /\ innerOrder = Undefined
  /\ generatedXml = Undefined
  /\ asserts = <<>>
  /\ calls = <<>>
  /\ outcome = "none"
  /\ ran = 0
  /\ rtFailed = FALSE

\* mocha starts a test of group g with the callback made for case tc,
\* in a fresh context; the test's number names its workspace.
Begin(g, tc, firstPc) ==
  /\ pc = "idle"
  /\ ran < MaxCases
  /\ group' = g
  /\ testCase' = tc
  /\ ws' = ran + 1
  /\ pc' = firstPc
  /\ outcome' = "running"
  /\ UNCHANGED <<env, testSuites, stubs, hookError, locals, asserts, calls, ran,
                 rtFailed>>

\* The callback returned (pass) or threw (fail): mocha records the result
\* and runs the group's teardown hook, if it has one.
End(result) ==
  /\ outcome' = result
  /\ pc' = IF group = "roundTrip" THEN "teardown" ELSE "done"
  /\ UNCHANGED <<ran, rtFailed>>

\* The test is over: its context and the callback's locals are gone.
Leave ==
  /\ pc' = "idle"
  /\ ran' = ran + 1
  /\ group' = "none"
  /\ testCase' = NoCase
  /\ generator' = "none"
  /\ suite' = 0
  /\ ws' = 0
  /\ block' = NoBlock
  /\ returned' = Undefined
  /\ code' = Undefined
  /\ innerOrder' = Undefined
  /\ generatedXml' = Undefined
  /\ asserts' = <<>>
  /\ calls' = <<>>
  /\ outcome' = "none"

\* A test of a group without hooks ends.
Finish ==
  /\ pc = "done"
  /\ Leave
  /\ UNCHANGED <<config, stubs, hookError, rtFailed>>

(* ---------------------- runSerializationTestSuite ---------------------- *)

\* runTestCases(testCases, createXmlToBlockTestCallback), in the suite
\* 'xmlToBlock', which has no hooks: one test per case.
StartXmlToBlockHooked ==
  /\ \E tc \in SerializationCases : Begin("xmlToBlock", tc, "setup")
  /\ UNCHANGED <<generator, suite>>

StartXmlToBlock ==
  /\ \E tc \in SerializationCases : Begin("xmlToBlock", tc, "parse")
  /\ UNCHANGED <<generator, suite>>

\* runTestCases(testCases, createXmlRoundTripTestCallback), inside the
\* suite with hooks: mocha runs setup before the callback.
StartRoundTrip ==
  /\ \E tc \in SerializationCases : Begin("roundTrip", tc, "setup")
  /\ UNCHANGED <<generator, suite>>

\* The property setup stubs.
StubTargetAlwaysUtils(build) == UtilsGenUid

StubTargetOnlyIdGenerator(build) ==
  IF build.idGenerator THEN TestOnlyGenUid ELSE UtilsGenUid

StubTarget(build) ==
  IF build.idGenerator /\ build.testOnly THEN TestOnlyGenUid ELSE UtilsGenUid

\* The sandbox after setup's sinon.stub(...).returns('1').
SetupStubs(build, installed) == installed \cup {StubTarget(build)}

\* sinon.stub throws on a property that is missing or already wrapped.
StubThrows(build, installed) ==
  \/ ~Exists(build, StubTarget(build))
  \/ StubTarget(build) \in installed

Setup ==
  /\ pc = "setup"
  /\ IF StubThrows(env, stubs)
       THEN /\ hookError' = TRUE
            /\ outcome' = "fail"
            /\ pc' = "teardown"
            /\ UNCHANGED stubs
       ELSE /\ stubs' = SetupStubs(env, stubs)
            /\ pc' = "parse"
            /\ UNCHANGED <<hookError, outcome>>
  /\ UNCHANGED <<config, group, testCase, generator, suite, ws, locals,
                 asserts, calls, ran, rtFailed>>

\* const block = Blockly.Xml.domToBlock(Blockly.Xml.textToDom(testCase.xml),
\*     this.workspace);  -- common to both callbacks.
ParseXml ==
  /\ pc = "parse"
  /\ \E uid \in GenUid(env, stubs) :
       LET b == domToBlock(textToDom(testCase.xml.s), uid)
       IN /\ block' = b
          /\ IF b = NoBlock
               THEN End("fail")
               ELSE /\ pc' = IF group = "xmlToBlock" THEN "structure" ELSE "serialize"
                    /\ UNCHANGED <<outcome, ran, rtFailed>>
  /\ UNCHANGED <<config, stubs, hookError, group, testCase, generator, suite, ws,
                 returned, code, innerOrder, generatedXml, asserts, calls>>

\* testCase.assertBlockStructure(block);
AssertStructure ==
  /\ pc = "structure"
  /\ LET ok == assertBlockStructure(testCase, block)
     IN /\ asserts' = Append(asserts, [what |-> "structure", ok |-> ok])
        /\ End(IF ok THEN "pass" ELSE "fail")
  /\ UNCHANGED <<config, stubs, hookError, group, testCase, generator, suite, ws,
                 locals, calls>>

\* const generatedXml = Blockly.Xml.domToPrettyText(Blockly.Xml.blockToDom(block));
Serialize ==
  /\ pc = "serialize"
  /\ generatedXml' = Str(domToPrettyText(blockToDom(block)))
  /\ pc' = "assertXml"
  /\ UNCHANGED <<config, stubs, hookError, group, testCase, generator, suite, ws,
                 block, returned, code, innerOrder, asserts, calls, outcome, ran,
                 rtFailed>>

\* const expectedXml = testCase.expectedXml || testCase.xml;
ExpectedXml(tc) == IF Truthy(tc.expectedXml) THEN tc.expectedXml ELSE tc.xml

\* assert.equal(generatedXml, expectedXml);
AssertXml ==
  /\ pc = "assertXml"
  /\ LET ok == AssertEqual(generatedXml, ExpectedXml(testCase))
     IN /\ asserts' = Append(asserts, [what |-> "xml", ok |-> ok])
        /\ End(IF ok THEN "pass" ELSE "fail")
  /\ UNCHANGED <<config, stubs, hookError, group, testCase, generator, suite, ws,
                 locals, calls>>

\* sinon.restore(): every stub of the default sandbox is removed.
Restore(installed) == {}

\* teardown runs after the callback, whether it passed or threw.
TeardownSkippedOnFailure ==
  /\ pc = "teardown"
  /\ stubs' = IF outcome = "pass" THEN Restore(stubs) ELSE stubs
  /\ rtFailed' = (rtFailed \/ outcome = "fail")
  /\ Leave
  /\ UNCHANGED <<config, hookError>>

Teardown ==
  /\ pc = "teardown"
  /\ stubs' = Restore(stubs)
  /\ rtFailed' = (rtFailed \/ outcome = "fail")
  /\ Leave
  /\ UNCHANGED <<config, hookError>>

(* --------------------- runCodeGenerationTestSuites --------------------- *)

CodeStrings == {<<"5">>, <<"1", "5">>}
Orders == {0, 1}

\* CodeGenerationTestCase: expectedCode (a string or a pattern),
\* useWorkspaceToCode (boolean|undefined), expectedInnerOrder
\* (number|undefined).
CodeGenCases ==
  [ expectedCode : {Str(<<"5">>), RegExp(<<"5">>, FALSE), RegExp(<<"5">>, TRUE)},
    useWorkspaceToCode : {Undefined, Bool(TRUE), Bool(FALSE)},
    expectedInnerOrder : {Undefined} \cup {Num(n) : n \in Orders} ]

\* What generator.blockToCode may return: a string or a [string, number] pair.
BlockToCodeResults ==
  {Str(c) : c \in CodeStrings}
    \cup {Pair(Str(c), Num(n)) : c \in CodeStrings, n \in Orders}

\* What generator.workspaceToCode may return.
WorkspaceToCodeResults == {Str(c) : c \in CodeStrings}

CreateBlockCall(w) == [fn |-> "createBlock", ws |-> w]
WorkspaceToCodeCall(g, w) == [fn |-> "workspaceToCode", gen |-> g, ws |-> w]
InitCall(g, w) == [fn |-> "init", gen |-> g, ws |-> w]
BlockToCodeCall(g, b) == [fn |-> "blockToCode", gen |-> g, blockId |-> b.id]

\* createCodeGenerationTestFn_(generator): the returned factory, and every
\* callback it makes, closes over generator.
createCodeGenerationTestFn_(gen) == gen

\* createTestFn(suiteInfo) of runCodeGenerationTestSuites.
createTestFnFirstSuite(suiteInfo) ==
  createCodeGenerationTestFn_(testSuites[1].generator)

createTestFn(suiteInfo) == createCodeGenerationTestFn_(suiteInfo.generator)

\* runTestSuites(suites, createTestCaseCallback): the cases of suite s get
\* their callbacks from createTestCaseCallback(suites[s]).
SuiteCallbackFactory(suites, s) == createTestFn(suites[s])

\* runTestSuites(testSuites, createTestFn): one test per case of each suite.
StartCodeGen ==
  \E s \in 1..NumSuites, tc \in CodeGenCases :
    /\ Begin("codeGen", tc, "createBlock")
    /\ suite' = s
    /\ generator' = SuiteCallbackFactory(testSuites, s)

\* const block = testCase.createBlock(this.workspace);
CreateBlock ==
  /\ pc = "createBlock"
  /\ calls' = Append(calls, CreateBlockCall(ws))
  /\ \E uid \in GenUid(env, stubs) : block' = [type |-> "text", id |-> uid]
  /\ pc' = "generate"
  /\ UNCHANGED <<config, stubs, hookError, group, testCase, generator, suite, ws,
                 returned, code, innerOrder, generatedXml, asserts, outcome, ran,
                 rtFailed>>

\* if (testCase.useWorkspaceToCode)
UsesWorkspaceToCodeNever(tc) == FALSE

UsesWorkspaceToCode(tc) == Truthy(tc.useWorkspaceToCode)

\* code = generator.workspaceToCode(this.workspace);
WorkspaceToCode ==
  /\ pc = "generate"
  /\ UsesWorkspaceToCode(testCase)
  /\ calls' = Append(calls, WorkspaceToCodeCall(generator, ws))
  /\ \E r \in WorkspaceToCodeResults : returned' = r /\ code' = r
  /\ pc' = "assertCode"
  /\ UNCHANGED <<config, stubs, hookError, group, testCase, generator, suite, ws,
                 block, innerOrder, generatedXml, asserts, outcome, ran, rtFailed>>

\* generator.init(this.workspace);
GeneratorInit ==
  /\ pc = "generate"
  /\ ~UsesWorkspaceToCode(testCase)
  /\ calls' = Append(calls, InitCall(generator, ws))
  /\ pc' = "blockToCode"
  /\ UNCHANGED <<config, stubs, hookError, group, testCase, generator, suite, ws,
                 locals, asserts, outcome, ran, rtFailed>>

\* code = generator.blockToCode(block);
\* if (Array.isArray(code)) { innerOrder = code[1]; code = code[0]; }
BlockToCode ==
  /\ pc = "blockToCode"
  /\ calls' = Append(calls, BlockToCodeCall(generator, block))
  /\ \E r \in BlockToCodeResults :
       /\ returned' = r
       /\ IF r.t = "array"
            THEN innerOrder' = r.e1 /\ code' = r.e0
            ELSE innerOrder' = innerOrder /\ code' = r
  /\ pc' = "assertCode"
  /\ UNCHANGED <<config, stubs, hookError, group, testCase, generator, suite, ws,
                 block, generatedXml, asserts, outcome, ran, rtFailed>>

\* const assertFunc = (typeof testCase.expectedCode === 'string') ?
\*     assert.equal : assert.match;
\* assertFunc(code, testCase.expectedCode);
AssertFuncAlwaysMatch(actual, expected) ==
  AssertMatch(actual, IF expected.t = "string" THEN RegExp(expected.s, FALSE)
                      ELSE expected)

AssertFunc(actual, expected) ==
  IF expected.t = "string" THEN AssertEqual(actual, expected)
  ELSE AssertMatch(actual, expected)

\* if (!testCase.useWorkspaceToCode && testCase.expectedInnerOrder !== undefined)
ChecksOrderIfTruthy(tc) ==
  ~Truthy(tc.useWorkspaceToCode) /\ Truthy(tc.expectedInnerOrder)

ChecksOrder(tc) ==
  ~Truthy(tc.useWorkspaceToCode) /\ tc.expectedInnerOrder # Undefined

AssertCode ==
  /\ pc = "assertCode"
  /\ LET ok == AssertFunc(code, testCase.expectedCode)
     IN /\ asserts' = Append(asserts, [what |-> "code", ok |-> ok])
        /\ IF ~ok THEN End("fail")
           ELSE IF ChecksOrder(testCase)
             THEN pc' = "assertOrder" /\ UNCHANGED <<outcome, ran, rtFailed>>
             ELSE End("pass")
  /\ UNCHANGED <<config, stubs, hookError, group, testCase, generator, suite, ws,
                 locals, calls>>

\* assert.equal(innerOrder, testCase.expectedInnerOrder);
AssertOrder ==
  /\ pc = "assertOrder"
  /\ LET ok == AssertEqual(innerOrder, testCase.expectedInnerOrder)
     IN /\ asserts' = Append(asserts, [what |-> "order", ok |-> ok])
        /\ End(IF ok THEN "pass" ELSE "fail")
  /\ UNCHANGED <<config, stubs, hookError, group, testCase, generator, suite, ws,
                 locals, calls>>

(* ---------------------------- specification ---------------------------- *)

Next ==
  \/ StartXmlToBlock
  \/ StartRoundTrip
  \/ Setup
  \/ ParseXml
  \/ AssertStructure
  \/ Serialize
  \/ AssertXml
  \/ Teardown
  \/ StartCodeGen
  \/ CreateBlock
  \/ WorkspaceToCode
  \/ GeneratorInit
  \/ BlockToCode
  \/ AssertCode
  \/ AssertOrder
  \/ Finish

Spec == Init /\ [][Next]_vars

(* ------------------------------- claims -------------------------------- *)

RoundTripBody == {"parse", "serialize", "assertXml"}

\* C1: around every round-trip case setup and teardown alternate: setup
\* never meets a stub that is still installed, the unique-ID function
\* returns the stub's "1" during the whole case body, and no stub is
\* installed between two cases or when the next setup starts.
C1_SetupTeardownAlternate ==
  /\ ~hookError
  /\ (group = "roundTrip" /\ pc \in RoundTripBody)
       => (stubs # {} /\ GenUid(env, stubs) = {StubId})
  /\ pc \in {"idle", "setup"} => stubs = {}

\* A second round-trip case is inside its body, after an earlier one.
C1_Witness ==
  /\ rtFailed
  /\ group = "roundTrip"
  /\ pc = "serialize"
  /\ stubs # {}

\* C2: a failing assertion ends its own case only: it is the last
\* statement that case runs, later cases still run without a hook error,
\* and between cases no stub is installed whatever failed before.
C2_FailureDoesNotLeak ==
  /\ pc = "idle" => stubs = {}
  /\ rtFailed => ~hookError
  /\ \A i \in 1..(Len(asserts) - 1) : asserts[i].ok
  /\ (asserts # <<>> /\ ~asserts[Len(asserts)].ok) => outcome = "fail"

\* A round-trip case passes after an earlier round-trip case has failed.
C2_Witness ==
  /\ rtFailed
  /\ group = "roundTrip"
  /\ pc = "teardown"
  /\ outcome = "pass"

\* The code the generator produced: the string, or the pair's first element.
GeneratedCode == IF returned.t = "array" THEN returned.e0 ELSE returned

\* The order the generator produced: the pair's second element, if any.
GeneratedOrder == IF returned.t = "array" THEN returned.e1 ELSE Undefined

\* C3: the code assertion of a code generation case passes exactly when
\* the generated code is the very string expectedCode, for a string, and
\* when it matches the pattern otherwise.
C3_CodeComparedByTypeOfExpected ==
  \A i \in DOMAIN asserts :
    asserts[i].what = "code" =>
      LET exp == testCase.expectedCode
      IN asserts[i].ok <=>
           IF exp.t = "string" THEN GeneratedCode = exp
           ELSE IF exp.anchored THEN GeneratedCode.s = exp.lit
                ELSE IsSubstring(exp.lit, GeneratedCode.s)

\* The code "15" is rejected for the expected string "5", which it contains.
C3_Witness ==
  /\ group = "codeGen"
  /\ asserts # <<>>
  /\ asserts[1].what = "code"
  /\ ~asserts[1].ok
  /\ testCase.expectedCode = Str(<<"5">>)
  /\ returned = Pair(Str(<<"1", "5">>), Num(0))

\* C4: a case that is not in whole-workspace mode and has
\* expectedInnerOrder passes only if the generator's order is exactly
\* expectedInnerOrder; in whole-workspace mode, or without
\* expectedInnerOrder, no order assertion is made.
C4_InnerOrderChecked ==
  group = "codeGen" =>
    /\ ( /\ outcome = "pass"
         /\ ~Truthy(testCase.useWorkspaceToCode)
         /\ testCase.expectedInnerOrder # Undefined )
         => GeneratedOrder = testCase.expectedInnerOrder
    /\ (\E i \in DOMAIN asserts : asserts[i].what = "order")
         => ( /\ ~Truthy(testCase.useWorkspaceToCode)
              /\ testCase.expectedInnerOrder # Undefined )

\* A case expecting order 0 passes on a pair whose order is 0.
C4_Witness ==
  /\ group = "codeGen"
  /\ outcome = "pass"
  /\ testCase.useWorkspaceToCode = Bool(FALSE)
  /\ testCase.expectedInnerOrder = Num(0)
  /\ returned.t = "array"
  /\ Len(asserts) = 2

\* C5: the round-trip assertion passes exactly when the serialized text
\* equals expectedXml, when expectedXml is set, and xml, when it is unset.
C5_RoundTripComparesExpectedOrXml ==
  \A i \in DOMAIN asserts :
    asserts[i].what = "xml" =>
      (asserts[i].ok <=>
         generatedXml = (IF testCase.expectedXml # Undefined
                           THEN testCase.expectedXml ELSE testCase.xml))

\* The calls a case makes after createBlock, by its mode.
ExpectedCalls ==
  IF Truthy(testCase.useWorkspaceToCode)
    THEN <<CreateBlockCall(ran + 1),
           WorkspaceToCodeCall(testSuites[suite].generator, ran + 1)>>
    ELSE <<CreateBlockCall(ran + 1),
           InitCall(testSuites[suite].generator, ran + 1),
           BlockToCodeCall(testSuites[suite].generator, block)>>

\* C6: a code generation callback calls createBlock(workspace) first;
\* then workspaceToCode alone when useWorkspaceToCode is set, and
\* otherwise init(workspace) followed by blockToCode(block).
C6_CallOrder ==
  group = "codeGen" =>
    /\ Len(calls) <= Len(ExpectedCalls)
    /\ calls = SubSeq(ExpectedCalls, 1, Len(calls))
    /\ pc \in {"assertCode", "assertOrder", "done"} => calls = ExpectedCalls

\* A whole-workspace case has finished with its two calls made.
C6_Witness ==
  /\ group = "codeGen"
  /\ pc = "done"
  /\ testCase.useWorkspaceToCode = Bool(TRUE)
  /\ Len(calls) = 2

\* C8: xmlToBlock and code generation cases run with the original
\* unique-ID function, and leave it as it is, wherever they come in the run.
C8_StubScopedToRoundTrip ==
  group \in {"xmlToBlock", "codeGen"} =>
    /\ stubs = {}
    /\ GenUid(env, stubs) = RandomIds
    /\ pc # "setup" /\ pc # "teardown"

\* An xmlToBlock case, run after a round-trip case, got a random block id.
C8_Witness ==
  /\ rtFailed
  /\ group = "xmlToBlock"
  /\ pc = "structure"
  /\ block.id \in RandomIds

\* C9: every generator call of a case of suite S is made on S.generator.
C9_SuiteGeneratorBound ==
  group = "codeGen" =>
    \A i \in DOMAIN calls :
      calls[i].fn # "createBlock" => calls[i].gen = testSuites[suite].generator

\* A case of the second suite, whose generator differs from the first
\* suite's, has called init and blockToCode.
C9_Witness ==
  /\ group = "codeGen"
  /\ suite = 2
  /\ testSuites[1].generator # testSuites[2].generator
  /\ Len(calls) = 3

\* C10: once setup has run, exactly one stub is installed: on
\* idGenerator.TEST_ONLY.genUid when idGenerator and TEST_ONLY exist, on
\* utils.genUid otherwise; teardown's restore removes it.
C10_ExactlyOneStub ==
  LET claimed == IF env.idGenerator /\ env.testOnly
                   THEN TestOnlyGenUid ELSE UtilsGenUid
  IN /\ (group = "roundTrip" /\ pc \in RoundTripBody \cup {"teardown"})
          => stubs = {claimed}
     /\ (group = "none") => stubs = {}

\* On a build with idGenerator but no TEST_ONLY the fallback is stubbed.
C10_Witness ==
  /\ env.idGenerator /\ ~env.testOnly
  /\ group = "roundTrip"
  /\ pc = "serialize"
  /\ stubs = {UtilsGenUid}

====
